---------------------------- MODULE Spec2Model ----------------------------
(***************************************************************************)
(* The S3 download commands of src/s3/commands/downloadFileAs.ts as a      *)
(* state machine: downloadFile / downloadS3File (one download of one       *)
(* object), downloadFileAsCommand, S3DownloadFilesManager.downloadAll and  *)
(* downloadFolderCommand.                                                  *)
(*                                                                         *)
(* The extension host is a single JavaScript thread.  One action is one    *)
(* run-to-completion turn: the synchronous code that follows an external   *)
(* event (a dialog being answered, a client call settling, a stream event, *)
(* a cancellation token firing) together with the chain of promise         *)
(* continuations that the event makes runnable.                            *)
(***************************************************************************)
EXTENDS Naturals, Sequences, FiniteSets

VARIABLES
    cmd,                \* the command that was invoked: "none", "folder", "fileAs", "direct"
    folderCmd,          \* downloadFolderCommand's promise: "idle", "listing", "resolved", "rejected"
    folderCmdErr,       \* the error delivered to downloadFolderCommand's caller
    mgr,                \* downloadAll's promise: "none", "prompting", "resolved", "rejected"
    mgrErr,             \* the error downloadAll rejected with
    unhandled,          \* rejections of promises nobody awaits
    chosen,             \* the folder the open dialog returned (<<>>: none yet / dismissed)
    fileList,           \* S3DownloadFilesManager.fileList
    folderName,         \* S3DownloadFilesManager.folderName ("": undefined)
    failedToDownload,   \* S3DownloadFilesManager.failedToDownload
    totalDownloaded,    \* S3DownloadFilesManager.totalDownloaded
    fsDirs,             \* the directories that exist on the local disk
    created,            \* the directories fs.mkdirSync created
    asCmd,              \* downloadFileAsCommand's promise: "idle", "prompting", "downloading", "resolved", "rejected"
    asCmdErr,           \* the error downloadFileAsCommand rejected with
    defaultDownloadPath,\* the path kept by get/setDefaultDownloadPath
    events,             \* downloadFileAsCommand's calls on its collaborators, oldest first
    task                \* the downloadFile invocations, by object

vars == <<cmd, folderCmd, folderCmdErr, mgr, mgrErr, unhandled, chosen, fileList,
          folderName, failedToDownload, totalDownloaded, fsDirs, created, asCmd,
          asCmdErr, defaultDownloadPath, events, task>>

folderVars == <<folderCmd, folderCmdErr, mgr, mgrErr, unhandled, chosen, fileList,
                folderName, failedToDownload, totalDownloaded, fsDirs, created>>

asVars == <<asCmd, asCmdErr, defaultDownloadPath, events>>

(***************************************************************************)
(* Bounds                                                                  *)
(***************************************************************************)
\* the largest listing a folder returns
MaxFiles == 3

Objects == 1 .. MaxFiles

(***************************************************************************)
(* Values                                                                  *)
(***************************************************************************)
NoError == [kind |-> "none", agent |-> "none", cause |-> "none"]

\* new CancellationError(agent)
CancellationError(agent) == [kind |-> "CancellationError", agent |-> agent, cause |-> "none"]

\* an error of the object store, of the network or of the local disk
Fault(kind) == [kind |-> kind, agent |-> "none", cause |-> "none"]

\* ToolkitError.chain(err, 'Failed to download file ...'): a ToolkitError whose
\* cause is err (the cause's kind and, for a cancellation, its agent are kept)
Chain(err) == [kind |-> "ToolkitError", agent |-> err.agent, cause |-> err.kind]

\* S3File of the object with key i; names are unique within a listing
S3File(i) == [key |-> i, name |-> i]

\* the folder the open dialog offers, the folders the save dialog offers
Root == <<"Downloads">>
SaveDirs == {<<"Downloads">>, <<"Desktop">>}
FolderNames == {"", "photos"}
Undefined == <<>>

\* path.join(dir, segment) for a directory segment
JoinDir(dir, segment) == Append(dir, segment)

\* vscode.Uri.file(path.join(dir, name)) for a file name
FileUri(dir, name) == [dir |-> dir, file |-> name]

\* options.saveLocation undefined: the download resolves into a Buffer
NoSaveLocation == [dir |-> <<>>, file |-> 0]

\* DownloadFileOptions, as far as downloadS3File reads them
Options(saveLocation, timeout, progressLocation) ==
    [saveLocation |-> saveLocation, timeout |-> timeout, progressLocation |-> progressLocation]

\* a downloadFile invocation that has not been made
IdleTask == [pc |-> "none", stream |-> "none", streamErr |-> NoError,
             result |-> "none", err |-> NoError, saveLocation |-> NoSaveLocation,
             progressLocation |-> FALSE, progress |-> "none", cancellable |-> FALSE,
             userToken |-> FALSE, timeout |-> "absent", agent |-> "none",
             midStream |-> FALSE, calls |-> 0]

Settled(tk) == tk.pc \in {"fulfilled", "rejected"}

(***************************************************************************)
(* downloadFile / downloadS3File: one download of one object               *)
(***************************************************************************)
\* downloadFile(file, options) up to downloadS3File's first await: the client's
\* downloadFileStream has been called and has not answered
StartDownload(tk, options) ==
    [tk EXCEPT !.pc = "opening",
               !.saveLocation = options.saveLocation,
               !.progressLocation = options.progressLocation,
               !.timeout = IF options.timeout THEN "armed" ELSE "absent",
               !.calls = @ + 1]

\* downloadStream.destroy(err): tears an in-flight stream down with err; a stream
\* that has ended or was destroyed before is left as it is
Destroy(tk, err) ==
    IF tk.stream = "open"
    THEN [tk EXCEPT !.stream = "destroyed", !.streamErr = err]
    ELSE tk

\* a listener that reports every cancellation as the user's
UserOnlyOnTimeoutCancelled(tk, agent) == Destroy(tk, CancellationError("user"))

\* options.timeout.token.onCancellationRequested(({ agent }) => destroy(new CancellationError(agent)))
OnTimeoutCancelled(tk, agent) == Destroy(tk, CancellationError(agent))

\* token.onCancellationRequested(() => destroy(new CancellationError('user'))) of withProgress
OnProgressCancelled(tk) == Destroy(tk, CancellationError("user"))

\* downloadS3File after downloadFileStream resolved: the sink is attached, the
\* timeout's listener registered and the progress notification opened.  replay:
\* the timeout was cancelled before the listener existed and the token calls a
\* late listener all the same.
Opened(tk, replay) ==
    LET open == [tk EXCEPT !.pc = "streaming", !.stream = "open", !.result = "pending",
                           !.progress = IF tk.progressLocation THEN "shown" ELSE "none",
                           !.cancellable = (tk.timeout # "absent")]
    IN  IF replay THEN OnTimeoutCancelled(open, tk.agent) ELSE open

\* downloadFileStream rejected: downloadS3File rejects, downloadFile chains the error
OpenFailed(tk) ==
    [tk EXCEPT !.pc = "rejected", !.err = Chain(Fault("ServiceError"))]

\* the sink's promise resolved: the progress notification closes (result.finally)
\* and downloadFile fulfils
Succeeded(tk) ==
    [tk EXCEPT !.result = "resolved", !.pc = "fulfilled",
               !.progress = IF @ = "shown" THEN "done" ELSE @]

\* the sink's promise rejected with e: the progress notification closes and
\* downloadFile rejects with the chained error
Failed(tk, e) ==
    [tk EXCEPT !.result = "rejected", !.pc = "rejected", !.err = Chain(e),
               !.progress = IF @ = "shown" THEN "done" ELSE @]

(***************************************************************************)
(* S3DownloadFilesManager and downloadFolderCommand                        *)
(***************************************************************************)
\* what the open dialog can answer: undefined, no folder, one folder
FolderDialogAnswers ==
    {[defined |-> FALSE, uris |-> <<>>],
     [defined |-> TRUE, uris |-> <<>>],
     [defined |-> TRUE, uris |-> <<Root>>]}

\* promptForSaveFolderLocation's return value for the dialog's answer
PromptForSaveFolderLocation(answer) ==
    IF ~answer.defined \/ Len(answer.uris) = 0 THEN Undefined ELSE answer.uris[1]

\* downloadAll: whether fs.mkdirSync(dir) is called
CallsMkdir(location, name, dirs) ==
    name # "" /\ JoinDir(location, name) \notin dirs

\* downloadAll: savePath once the folder step is over
SavePath(location, name, dirs) ==
    IF CallsMkdir(location, name, dirs) THEN JoinDir(location, name) ELSE location

\* the options downloadAll gives downloadFile for one file
BatchOptions(savePath, file) == Options(FileUri(savePath, file.name), FALSE, TRUE)

\* a loop that stops after the first file
LaunchFirstOnly(tasks, files, savePath) ==
    [i \in Objects |->
        IF Len(files) >= 1 /\ files[1].key = i
        THEN StartDownload(tasks[i], BatchOptions(savePath, S3File(i)))
        ELSE tasks[i]]

\* downloadAll's forEach: every callback runs up to its await of downloadFile
LaunchAll(tasks, files, savePath) ==
    [i \in Objects |->
        IF \E k \in 1 .. Len(files) : files[k].key = i
        THEN StartDownload(tasks[i], BatchOptions(savePath, S3File(i)))
        ELSE tasks[i]]

\* a catch block that records the file twice
RecordFailureTwice(failed, file) == Append(Append(failed, file), file)

\* the catch block of the forEach callback
RecordFailure(failed, file) == Append(failed, file)

\* the forEach callback after its await of downloadFile settled as tk
BatchContinuation(failed, file, tk) ==
    IF tk.pc = "rejected" THEN RecordFailure(failed, file) ELSE failed

\* the user runs "Download Folder": listFiles is called and awaited
InvokeDownloadFolder ==
    /\ cmd = "none"
    /\ cmd' = "folder"
    /\ folderCmd' = "listing"
    /\ \E name \in FolderNames : folderName' = name
    /\ UNCHANGED <<folderCmdErr, mgr, mgrErr, unhandled, chosen, fileList,
                   failedToDownload, totalDownloaded, fsDirs, created, task>>
    /\ UNCHANGED asVars

\* listFiles rejects: the error reaches downloadFolderCommand's caller as it is
ListFilesRejects ==
    /\ folderCmd = "listing"
    /\ folderCmd' = "rejected"
    /\ folderCmdErr' = Fault("ServiceError")
    /\ UNCHANGED <<cmd, mgr, mgrErr, unhandled, chosen, fileList, folderName,
                   failedToDownload, totalDownloaded, fsDirs, created, task>>
    /\ UNCHANGED asVars

\* a command that awaits downloadAll
AwaitsDownloadAll == "awaiting"

\* downloadFolderCommand's promise after downloadManager.downloadAll() was
\* called: the call is not awaited
AfterDownloadAllCalled == "resolved"

\* listFiles resolves with n files: the manager is built, downloadAll is called
\* (it runs up to the open dialog) and downloadFolderCommand returns
ListFilesResolves ==
    /\ folderCmd = "listing"
    /\ \E n \in 0 .. MaxFiles : fileList' = [i \in 1 .. n |-> S3File(i)]
    /\ mgr' = "prompting"
    /\ folderCmd' = AfterDownloadAllCalled
    /\ UNCHANGED <<cmd, folderCmdErr, mgrErr, unhandled, chosen, folderName,
                   failedToDownload, totalDownloaded, fsDirs, created, task>>
    /\ UNCHANGED asVars

\* downloadAll's promise rejects with e; downloadFolderCommand holds no
\* reference to it, so the rejection is handled by nobody
DownloadAllRejects(e) ==
    /\ mgr' = "rejected"
    /\ mgrErr' = e
    /\ unhandled' = unhandled \cup {e}
    /\ UNCHANGED <<cmd, folderCmd, folderCmdErr, fileList, folderName,
                   failedToDownload, totalDownloaded, fsDirs, created, task>>

\* downloadAll without the check of the prompt's result
DownloadAllStepUnchecked(saveLocation, name, dirs, mkdirOk) ==
    IF CallsMkdir(saveLocation, name, dirs) /\ ~mkdirOk THEN "mkdirThrew" ELSE "forEach"

\* how downloadAll goes on after the prompt: it throws CancellationError when
\* no folder was chosen, the error of fs.mkdirSync when that throws, and runs
\* the forEach otherwise
DownloadAllStep(saveLocation, name, dirs, mkdirOk) ==
    IF saveLocation = Undefined THEN "cancelled"
    ELSE IF CallsMkdir(saveLocation, name, dirs) /\ ~mkdirOk THEN "mkdirThrew"
    ELSE "forEach"

\* the open dialog is answered: downloadAll runs to its end
FolderDialogAnswered ==
    /\ mgr = "prompting"
    /\ \E answer \in FolderDialogAnswers, mkdirOk \in BOOLEAN :
        LET saveLocation == PromptForSaveFolderLocation(answer)
            step == DownloadAllStep(saveLocation, folderName, fsDirs, mkdirOk)
            dir == IF CallsMkdir(saveLocation, folderName, fsDirs)
                   THEN {JoinDir(saveLocation, folderName)} ELSE {}
        IN
        /\ chosen' = saveLocation
        /\ IF step = "cancelled" THEN DownloadAllRejects(CancellationError("user"))
           ELSE IF step = "mkdirThrew" THEN DownloadAllRejects(Fault("FsError"))
           ELSE /\ fsDirs' = fsDirs \cup dir
                /\ created' = created \cup dir
                /\ task' = LaunchAll(task, fileList, SavePath(saveLocation, folderName, fsDirs))
                /\ mgr' = "resolved"
                /\ UNCHANGED <<cmd, folderCmd, folderCmdErr, mgrErr, unhandled, fileList,
                               folderName, failedToDownload, totalDownloaded>>
    /\ UNCHANGED asVars

(***************************************************************************)
(* downloadFileAsCommand                                                   *)
(***************************************************************************)
\* the object downloadFileAsCommand and a direct downloadFile call work on
TheFile == S3File(1)

\* one call of downloadFileAsCommand on a collaborator: the save dialog,
\* setDefaultDownloadPath, showOutputMessage, downloadFile
Event(text, saveLocation) == [text |-> text, to |-> saveLocation]

\* downloadFileAsCommand from the answer of the save dialog to its await of
\* downloadFile
BeforeDownload(saveLocation) ==
    <<Event("setDefaultDownloadPath", saveLocation),
      Event("Downloading", saveLocation),
      Event("downloadFile", saveLocation)>>

\* the user runs "Download As...": the save dialog opens
InvokeDownloadFileAs ==
    /\ cmd = "none"
    /\ cmd' = "fileAs"
    /\ asCmd' = "prompting"
    /\ events' = Append(events, Event("showSaveDialog", defaultDownloadPath))
    /\ UNCHANGED <<asCmdErr, defaultDownloadPath, task>>
    /\ UNCHANGED folderVars

\* the save dialog is answered with a location, or dismissed (Undefined)
SaveDialogAnswered ==
    /\ asCmd = "prompting"
    /\ \E dir \in SaveDirs \cup {Undefined} :
        IF dir = Undefined
        THEN /\ asCmd' = "rejected"
             /\ asCmdErr' = CancellationError("user")
             /\ UNCHANGED <<defaultDownloadPath, events, task>>
        ELSE LET saveLocation == FileUri(dir, TheFile.name) IN
             /\ defaultDownloadPath' = saveLocation
             /\ events' = events \o BeforeDownload(saveLocation)
             /\ task' = [task EXCEPT ![TheFile.key] =
                            StartDownload(@, Options(saveLocation, FALSE, TRUE))]
             /\ asCmd' = "downloading"
             /\ UNCHANGED asCmdErr
    /\ UNCHANGED cmd
    /\ UNCHANGED folderVars

\* a command that shows 'Downloaded' however the download ended
FileAsContinuationAlwaysShows(tk) ==
    /\ events' = Append(events, Event("Downloaded", tk.saveLocation))
    /\ asCmd' = IF tk.pc = "fulfilled" THEN "resolved" ELSE "rejected"
    /\ asCmdErr' = tk.err
    /\ UNCHANGED defaultDownloadPath

\* downloadFileAsCommand after its await of downloadFile settled as tk
FileAsContinuation(tk) ==
    IF tk.pc = "fulfilled"
    THEN /\ events' = Append(events, Event("Downloaded", tk.saveLocation))
         /\ asCmd' = "resolved"
         /\ UNCHANGED <<asCmdErr, defaultDownloadPath>>
    ELSE /\ asCmd' = "rejected"
         /\ asCmdErr' = tk.err
         /\ UNCHANGED <<events, defaultDownloadPath>>

(***************************************************************************)
(* a caller of downloadFile with options of its own                        *)
(***************************************************************************)
InvokeDownloadFile ==
    /\ cmd = "none"
    /\ cmd' = "direct"
    /\ \E dir \in SaveDirs \cup {Undefined}, timeout \in BOOLEAN, progressLocation \in BOOLEAN :
        task' = [task EXCEPT ![TheFile.key] =
                    StartDownload(@, Options(IF dir = Undefined THEN NoSaveLocation
                                             ELSE FileUri(dir, TheFile.name),
                                             timeout, progressLocation))]
    /\ UNCHANGED folderVars
    /\ UNCHANGED asVars

(***************************************************************************)
(* what follows a downloadFile promise settling                            *)
(***************************************************************************)
\* object i's downloadFile settled as tk: the awaiting caller's continuation runs
Continue(i, tk) ==
    /\ task' = [task EXCEPT ![i] = tk]
    /\ failedToDownload' = IF cmd = "folder" /\ Settled(tk)
                           THEN BatchContinuation(failedToDownload, S3File(i), tk)
                           ELSE failedToDownload
    /\ IF cmd = "fileAs" /\ Settled(tk)
       THEN FileAsContinuation(tk)
       ELSE UNCHANGED asVars
    /\ UNCHANGED <<cmd, folderCmd, folderCmdErr, mgr, mgrErr, unhandled, chosen,
                   fileList, folderName, totalDownloaded, fsDirs, created>>

(***************************************************************************)
(* the events of one download                                              *)
(***************************************************************************)
\* client.downloadFileStream resolves with a stream
ClientResolves(i) ==
    /\ task[i].pc = "opening"
    /\ \E replay \in BOOLEAN :
        /\ replay => task[i].timeout = "fired"
        /\ Continue(i, Opened(task[i], replay))

\* client.downloadFileStream rejects
ClientRejects(i) ==
    /\ task[i].pc = "opening"
    /\ Continue(i, OpenFailed(task[i]))

\* the stream delivers its last chunk
StreamEnds(i) ==
    /\ task[i].stream = "open"
    /\ Continue(i, [task[i] EXCEPT !.stream = "ended"])

\* the stream breaks (the connection is lost)
StreamFails(i) ==
    /\ task[i].stream = "open"
    /\ Continue(i, Destroy(task[i], Fault("NetworkError")))

\* the timeout given in the options is cancelled by agent (the user, or its
\* timer); the listener of downloadS3File exists once the stream does
TimeoutCancelled(i) ==
    /\ task[i].timeout = "armed"
    /\ ~Settled(task[i])
    /\ \E agent \in {"user", "timeout"} :
        LET fired == [task[i] EXCEPT !.timeout = "fired", !.agent = agent,
                                     !.midStream = (task[i].stream = "open")]
        IN  Continue(i, IF task[i].stream = "none" THEN fired
                        ELSE OnTimeoutCancelled(fired, agent))

\* a listener that tears down every stream of the batch
AfterProgressCancelledAll(tasks, i) ==
    [j \in DOMAIN tasks |->
        IF j = i THEN OnProgressCancelled([tasks[j] EXCEPT !.userToken = TRUE])
        ELSE OnProgressCancelled(tasks[j])]

\* the tasks after the progress token of object i's notification fired: the
\* listener closes over the downloadStream of its own downloadS3File call
AfterProgressCancelled(tasks, i) ==
    [tasks EXCEPT ![i] = OnProgressCancelled([@ EXCEPT !.userToken = TRUE])]

\* the token of the progress notification fires.  The listener is registered
\* whether or not the notification was opened as cancellable; when the token
\* fires is the window's business.
ProgressCancelled(i) ==
    /\ task[i].progress = "shown"
    /\ ~task[i].userToken
    /\ task' = AfterProgressCancelled(task, i)
    /\ UNCHANGED folderVars
    /\ UNCHANGED asVars
    /\ UNCHANGED cmd

\* streamToFile / streamToBuffer: the promise of the sink settles once the
\* stream is over, resolved after its end and rejected with the stream's error
SinkSettled(tk) ==
    IF tk.stream = "ended" THEN Succeeded(tk) ELSE Failed(tk, tk.streamErr)

SinkSettles(i) ==
    /\ task[i].result = "pending"
    /\ task[i].stream \in {"ended", "destroyed"}
    /\ Continue(i, SinkSettled(task[i]))

\* streamToFile: writing the file fails while the stream is intact; the
\* stream is torn down with the write's error
SinkWriteFails(i) ==
    /\ task[i].result = "pending"
    /\ task[i].saveLocation # NoSaveLocation
    /\ task[i].stream \in {"open", "ended"}
    /\ Continue(i, Failed(Destroy(task[i], Fault("FsError")), Fault("FsError")))

(***************************************************************************)
(* The specification                                                       *)
(***************************************************************************)
Init ==
    /\ cmd = "none"
    /\ folderCmd = "idle"
    /\ folderCmdErr = NoError
    /\ mgr = "none"
    /\ mgrErr = NoError
    /\ unhandled = {}
    /\ chosen = Undefined
    /\ fileList = <<>>
    /\ folderName = ""
    /\ failedToDownload = <<>>
    /\ totalDownloaded = 0
    /\ fsDirs \in {{Root}, {Root, JoinDir(Root, "photos")}}
    /\ created = {}
    /\ asCmd = "idle"
    /\ asCmdErr = NoError
    /\ defaultDownloadPath = FileUri(<<"Home">>, 0)
    /\ events = <<>>
    /\ task = [i \in Objects |-> IdleTask]

Next ==
    \/ InvokeDownloadFolder
    \/ ListFilesRejects
    \/ ListFilesResolves
    \/ FolderDialogAnswered
    \/ InvokeDownloadFileAs
    \/ SaveDialogAnswered
    \/ InvokeDownloadFile
    \/ \E i \in Objects :
        \/ ClientResolves(i)
        \/ ClientRejects(i)
        \/ StreamEnds(i)
        \/ StreamFails(i)
        \/ TimeoutCancelled(i)
        \/ ProgressCancelled(i)
        \/ SinkSettles(i)
        \/ SinkWriteFails(i)

Spec == Init /\ [][Next]_vars

(***************************************************************************)
(* Properties of a folder download session                                 *)
(***************************************************************************)
\* the keys of the listed objects
Listed == {fileList[k].key : k \in 1 .. Len(fileList)}

\* every per-object download of the session has settled
AllSettled == \A i \in Listed : Settled(task[i])

SucceededObjects == {i \in Listed : task[i].pc = "fulfilled"}
FailedObjects == {i \in Listed : task[i].pc = "rejected"}

\* the folder downloadAll is meant to download into
IntendedFolder == IF folderName # "" THEN JoinDir(chosen, folderName) ELSE chosen

\* C1: downloadAll's promise resolves only after every per-object download it
\* launched has settled; it is never complete with a download in flight.
C1_CompleteOnlyWhenAllSettled ==
    (cmd = "folder" /\ mgr = "resolved") => AllSettled

\* C2: once all per-object downloads have settled, totalDownloaded is the number
\* of objects that succeeded and failedToDownload holds exactly the objects
\* that failed, each once.
C2_Accounting ==
    (cmd = "folder" /\ mgr = "resolved" /\ AllSettled) =>
        /\ totalDownloaded = Cardinality(SucceededObjects)
        /\ Len(failedToDownload) = Cardinality(FailedObjects)
        /\ {failedToDownload[k].key : k \in 1 .. Len(failedToDownload)} = FailedObjects

\* C3: with a folder name every object is downloaded to
\* <chosen root>/<folder name>/<object name>, whether the subdirectory existed
\* or was created; without one, to <chosen root>/<object name>.
C3_Destination ==
    cmd = "folder" =>
        \A i \in Listed :
            task[i].pc # "none" => task[i].saveLocation = FileUri(IntendedFolder, S3File(i).name)

\* C4 (as claimed): once a destination has been chosen, every object of the
\* file list gets exactly one download attempt in file mode.
C4_AttemptedOnceChosen ==
    (cmd = "folder" /\ chosen # Undefined) =>
        \A i \in Listed :
            task[i].calls = 1 /\ task[i].saveLocation # NoSaveLocation

\* C4 (amended): once a destination has been chosen and the folder step did not
\* throw (the subdirectory existed, was not needed, or fs.mkdirSync created it),
\* every object of the file list has had exactly one download attempt, in file
\* mode under its own name, whatever the other attempts' outcomes; no object is
\* attempted otherwise, and none twice.
C4_AttemptedOnceLaunched ==
    cmd = "folder" =>
        /\ \A i \in Listed :
            /\ task[i].calls = (IF chosen # Undefined /\ mgrErr = NoError THEN 1 ELSE 0)
            /\ task[i].calls = 1 =>
                /\ task[i].saveLocation # NoSaveLocation
                /\ task[i].saveLocation.file = S3File(i).name
        /\ \A i \in Objects \ Listed : task[i].calls = 0

\* a batch in which one object failed and the others were attempted and succeeded
C4_Witness ==
    /\ cmd = "folder"
    /\ Len(fileList) = 3
    /\ task[2].pc = "rejected"
    /\ task[1].pc = "fulfilled"
    /\ task[3].pc = "fulfilled"

\* C5 (as claimed): downloadAll fails if and only if no destination is chosen,
\* then with CancellationError('user') and before any directory is created or
\* download started; with a destination chosen it never fails.
C5_FailsIffNoneChosen ==
    (cmd = "folder" /\ mgr \in {"resolved", "rejected"}) =>
        /\ (mgr = "rejected") <=> (chosen = Undefined)
        /\ mgr = "rejected" =>
            /\ mgrErr = CancellationError("user")
            /\ created = {}
            /\ \A i \in Objects : task[i].calls = 0

\* C5 (amended): downloadAll fails if and only if no destination is chosen or
\* fs.mkdirSync throws while creating the subdirectory.  With no destination it
\* fails with CancellationError('user'); with mkdirSync throwing, with that
\* error (only when there is a folder name); either way before any directory
\* is created and any download started.  Once downloads have been started it
\* is resolved, whatever their outcomes.
C5_FailsIffNoneChosenOrMkdirThrew ==
    (cmd = "folder" /\ mgr \in {"resolved", "rejected"}) =>
        /\ chosen = Undefined => (mgr = "rejected" /\ mgrErr = CancellationError("user"))
        /\ mgr = "rejected" =>
            /\ \/ chosen = Undefined /\ mgrErr = CancellationError("user")
               \/ chosen # Undefined /\ mgrErr = Fault("FsError") /\ folderName # ""
            /\ created = {}
            /\ \A i \in Objects : task[i].calls = 0
        /\ (\E i \in Objects : task[i].calls > 0) => (mgr = "resolved" /\ mgrErr = NoError)

\* a destination was chosen, every download failed and downloadAll is resolved
C5_Witness ==
    /\ cmd = "folder"
    /\ chosen # Undefined
    /\ Len(fileList) = 2
    /\ FailedObjects = Listed
    /\ mgr = "resolved"

(***************************************************************************)
(* Properties of one download                                              *)
(***************************************************************************)
\* C6: when the timeout given to a single-file download is cancelled while the
\* stream is in flight, the stream is destroyed and the download fails with a
\* cancellation error carrying the cancelling agent (chained by downloadFile);
\* it never resolves, with a buffer or a written file, after that.
C6_CancelledMidStreamFails ==
    \A i \in Objects :
        task[i].midStream =>
            /\ task[i].stream = "destroyed"
            /\ task[i].streamErr = CancellationError(task[i].agent)
            /\ task[i].result # "resolved"
            /\ task[i].pc # "fulfilled"
            /\ task[i].pc = "rejected" => task[i].err = Chain(CancellationError(task[i].agent))

\* a download to a file whose timeout expired mid-stream, and which has failed
C6_Witness ==
    \E i \in Objects :
        /\ task[i].midStream
        /\ task[i].agent = "timeout"
        /\ task[i].saveLocation # NoSaveLocation
        /\ task[i].pc = "rejected"

\* C7: in a folder download session totalDownloaded + length(failedToDownload)
\* is at most the number of listed objects, and equals it only when every
\* per-object attempt has settled.
C7_CountsBounded ==
    cmd = "folder" =>
        /\ totalDownloaded + Len(failedToDownload) <= Len(fileList)
        /\ totalDownloaded + Len(failedToDownload) = Len(fileList) => AllSettled

\* the counts reach the number of objects: every download of a batch of two failed
C7_Witness ==
    /\ cmd = "folder"
    /\ Len(fileList) >= 2
    /\ totalDownloaded + Len(failedToDownload) = Len(fileList)

\* C8, the step: in a folder batch the progress cancellation of object i
\* destroys i's stream and changes no sibling's download, nor the failures
\* recorded so far.
C8_CancelStep ==
    \A i \in Objects :
        (cmd = "folder" /\ ~task[i].userToken /\ task'[i].userToken) =>
            /\ task[i].stream = "open" =>
                /\ task'[i].stream = "destroyed"
                /\ task'[i].streamErr = CancellationError("user")
            /\ \A j \in Objects \ {i} : task'[j] = task[j]
            /\ failedToDownload' = failedToDownload

\* C8, the outcome: in a folder batch an object fails with a cancellation only
\* if its own progress notification was cancelled, and every object that has
\* failed after its stream opened failed with its own stream's error or with
\* the error of writing its own file.
C8_OwnOutcome ==
    cmd = "folder" =>
        \A i \in Listed :
            /\ task[i].err.cause = "CancellationError" => task[i].userToken
            /\ task[i].result = "rejected" =>
                task[i].err \in {Chain(task[i].streamErr), Chain(Fault("FsError"))}
            /\ task[i].result = "resolved" => task[i].stream = "ended"

\* C8: in a folder batch, cancelling one object's download through its progress
\* notification destroys only that object's stream; the siblings keep running
\* and settle by their own streams, and only the cancelled object fails on
\* account of the cancellation.
C8_CancelIsolated == [][C8_CancelStep]_vars /\ []C8_OwnOutcome

\* object 2 was cancelled mid-stream and is the only failure; its siblings,
\* never cancelled, have succeeded
C8_Witness ==
    /\ cmd = "folder"
    /\ Len(fileList) = 3
    /\ task[2].userToken
    /\ task[2].err = Chain(CancellationError("user"))
    /\ failedToDownload = <<S3File(2)>>
    /\ \A j \in {1, 3} : ~task[j].userToken /\ task[j].pc = "fulfilled"

(***************************************************************************)
(* Properties of the commands                                              *)
(***************************************************************************)
IsPrefix(a, b) == Len(a) <= Len(b) /\ \A k \in 1 .. Len(a) : a[k] = b[k]

\* the calls of a downloadFileAsCommand that saves to saveLocation, in order
ExpectedEvents(first, saveLocation) ==
    <<first>> \o BeforeDownload(saveLocation) \o <<Event("Downloaded", saveLocation)>>

Shown(text) == \E k \in 1 .. Len(events) : events[k].text = text

\* C9: downloadFileAsCommand prompts, shows 'Downloading', downloads, shows
\* 'Downloaded', in that order.  'Downloaded' is shown only after the download
\* succeeded and never after it failed; with the save dialog dismissed the
\* command fails with CancellationError('user'), the default download path is
\* as it was, no message is shown and no download started.
C9_FileAsOrder ==
    cmd = "fileAs" =>
        /\ Len(events) >= 1
        /\ events[1] = Event("showSaveDialog", FileUri(<<"Home">>, 0))
        /\ Len(events) > 1 =>
            IsPrefix(events, ExpectedEvents(events[1], task[TheFile.key].saveLocation))
        /\ Shown("downloadFile") <=> task[TheFile.key].calls = 1
        /\ Shown("Downloaded") <=> asCmd = "resolved"
        /\ Shown("Downloaded") => task[TheFile.key].pc = "fulfilled"
        /\ task[TheFile.key].pc = "rejected" =>
            /\ ~Shown("Downloaded")
            /\ asCmd = "rejected"
            /\ asCmdErr = task[TheFile.key].err
        /\ (asCmd = "rejected" /\ task[TheFile.key].pc # "rejected") =>
            /\ asCmdErr = CancellationError("user")
            /\ defaultDownloadPath = FileUri(<<"Home">>, 0)
            /\ Len(events) = 1
            /\ task[TheFile.key].calls = 0
        /\ task[TheFile.key].calls = 1 =>
            defaultDownloadPath = task[TheFile.key].saveLocation

\* the command ran to its end: all four steps, the download fulfilled
C9_Witness ==
    /\ cmd = "fileAs"
    /\ asCmd = "resolved"
    /\ Len(events) = 5
    /\ task[TheFile.key].pc = "fulfilled"

\* C10: downloadFolderCommand fails only when listFiles fails, with that error
\* as it is and with no prompt and no download; after a listing it is resolved
\* whether or not the prompt was answered or the downloads settled, and an
\* error downloadAll rejects with never reaches its caller.
C10_FolderCommand ==
    cmd = "folder" =>
        /\ folderCmd = "rejected" =>
            /\ folderCmdErr = Fault("ServiceError")
            /\ mgr = "none"
            /\ \A i \in Objects : task[i].calls = 0
        /\ mgr # "none" => (folderCmd = "resolved" /\ folderCmdErr = NoError)
        /\ mgr = "rejected" => mgrErr \in unhandled
        /\ folderCmd = "listing" => mgr = "none"

\* the prompt was dismissed: downloadAll rejected, the command had resolved
C10_Witness ==
    /\ cmd = "folder"
    /\ folderCmd = "resolved"
    /\ mgr = "rejected"
    /\ mgrErr = CancellationError("user")

=============================================================================
